---- MODULE Spec2Model ----
(***************************************************************************)
(* MineLang -> Python translator (src/G2/Trabalho G2/mineLang.py).         *)
(*                                                                         *)
(* A Python str is modelled as a sequence of one-character strings, so     *)
(* that joining, right-trimming and column counting are computed and not   *)
(* assumed.  The lexer runs one main-loop iteration per action, the        *)
(* translator one token per action.                                        *)
(***************************************************************************)
EXTENDS Integers, Sequences, FiniteSets, TLC

VARIABLES source, i, line, col, tokens,
          out, pending_header, just_closed_brace, ti,
          pc, result, err, hdr_at

vars == <<source, i, line, col, tokens, out, pending_header,
          just_closed_brace, ti, pc, result, err, hdr_at>>

lexVars == <<source, i, line, col>>
trVars == <<out, pending_header, just_closed_brace, ti, result, hdr_at>>

----------------------------------------------------------------------------
(* Bounds of the model *)

\* longest source text, counted in fragments of SourceFragments
MaxFrags == 3
\* longest token list over CoreAlphabet handed directly to translate
MaxTokens == 5
\* longest token list over FullAlphabet handed directly to translate
MaxShort == 2

----------------------------------------------------------------------------
(* Text *)

RECURSIVE Join(_)
\* "".join(pieces)
Join(pieces) ==
    IF pieces = <<>> THEN <<>> ELSE Head(pieces) \o Join(Tail(pieces))

RECURSIVE JoinLines(_)
\* "\n".join(ls)
JoinLines(ls) ==
    IF ls = <<>> THEN <<>>
    ELSE IF Len(ls) = 1 THEN ls[1]
    ELSE ls[1] \o <<"\n">> \o JoinLines(Tail(ls))

RECURSIVE Spaces(_)
\* " " * k  (the empty string when k <= 0)
Spaces(k) == IF k <= 0 THEN <<>> ELSE <<" ">> \o Spaces(k - 1)

\* the characters str.strip()/rstrip() remove
Whitespace == {" ", "\t", "\n", "\r", "\f"}

RECURSIVE rstrip(_)
rstrip(s) ==
    IF s = <<>> THEN <<>>
    ELSE IF s[Len(s)] \in Whitespace THEN rstrip(SubSeq(s, 1, Len(s) - 1))
    ELSE s

RECURSIVE lstrip(_)
lstrip(s) ==
    IF s = <<>> THEN <<>>
    ELSE IF s[1] \in Whitespace THEN lstrip(Tail(s))
    ELSE s

strip(s) == lstrip(rstrip(s))

UpperChars == {"A","B","C","D","E","F","G","H","I","J","K","L","M",
               "N","O","P","Q","R","S","T","U","V","W","X","Y","Z"}
LowerChars == {"a","b","c","d","e","f","g","h","i","j","k","l","m",
               "n","o","p","q","r","s","t","u","v","w","x","y","z"}
DigitChars == {"0","1","2","3","4","5","6","7","8","9"}

isalpha(ch) == ch \in UpperChars \cup LowerChars
isdigit(ch) == ch \in DigitChars
isalnum(ch) == isalpha(ch) \/ isdigit(ch)

\* str.isupper(): at least one cased character and no lower-case one
isupper(s) ==
    /\ \E k \in 1..Len(s) : s[k] \in UpperChars
    /\ \A k \in 1..Len(s) : s[k] \notin LowerChars

----------------------------------------------------------------------------
(* Keyword table *)

OPERACAO == <<"O","P","E","R","A","C","A","O">>
SE_RISCO == <<"S","E","_","R","I","S","C","O">>
SENAO_OPERADOR == <<"S","E","N","A","O","_","O","P","E","R","A","D","O","R">>
ENQUANTO_ESCANEANDO ==
    <<"E","N","Q","U","A","N","T","O","_","E","S","C","A","N","E","A","N","D","O">>
ALERTAR_EQUIPE == <<"A","L","E","R","T","A","R","_","E","Q","U","I","P","E">>
MARCAR_AREA == <<"M","A","R","C","A","R","_","A","R","E","A">>
INTENSIFICAR == <<"I","N","T","E","N","S","I","F","I","C","A","R">>
DESATIVAR == <<"D","E","S","A","T","I","V","A","R">>
AMPLIFICAR == <<"A","M","P","L","I","F","I","C","A","R">>
DISTRIBUIR_RECURSOS ==
    <<"D","I","S","T","R","I","B","U","I","R","_","R","E","C","U","R","S","O","S">>
RETORNAR_STATUS == <<"R","E","T","O","R","N","A","R","_","S","T","A","T","U","S">>

py_def == <<"d","e","f">>
py_if == <<"i","f">>
py_else == <<"e","l","s","e">>
py_while == <<"w","h","i","l","e">>
py_print == <<"p","r","i","n","t">>
py_return == <<"r","e","t","u","r","n">>

KEYWORDS_MAP ==
    (OPERACAO :> py_def) @@ (SE_RISCO :> py_if) @@
    (SENAO_OPERADOR :> py_else) @@ (ENQUANTO_ESCANEANDO :> py_while) @@
    (ALERTAR_EQUIPE :> py_print) @@ (MARCAR_AREA :> <<"=">>) @@
    (INTENSIFICAR :> <<"+">>) @@ (DESATIVAR :> <<"-">>) @@
    (AMPLIFICAR :> <<"*">>) @@ (DISTRIBUIR_RECURSOS :> <<"/">>) @@
    (RETORNAR_STATUS :> py_return)

\* variant: "else" is missing from the set of block headers
HEADER_TOKENS_without_else == {py_def, py_if, py_while}

HEADER_TOKENS == {py_def, py_if, py_else, py_while}

\* variant: "return" is missing from the set
NEED_SPACE_AFTER_without_return == {py_def, py_if, py_while}

NEED_SPACE_AFTER == {py_def, py_return, py_if, py_while}

RELATIONALS == {<<"=","=">>, <<"!","=">>, <<">">>, <<"<">>,
                <<">","=">>, <<"<","=">>}

MULTI_CHAR_OPS ==
    RELATIONALS \cup {<<"/","/">>, <<"*","*">>, <<"<","<">>, <<">",">">>,
                      <<"+","=">>, <<"-","=">>, <<"*","=">>, <<"/","=">>,
                      <<"%","=">>}

Token(kind, value, l, c) == [kind |-> kind, value |-> value, line |-> l, col |-> c]

NoError == [kind |-> "none", line |-> 0, col |-> 0]
Error(kind, l, c) == [kind |-> kind, line |-> l, col |-> c]

\* no text returned (every text get_output returns ends in "\n")
None == <<>>

----------------------------------------------------------------------------
(* Emitter *)

Emitter == [lines |-> <<>>, current |-> <<>>, indent |-> 0, need_indent |-> TRUE]

\* variant: the indentation unit is 2 spaces
emit_indent_two_spaces(e) ==
    IF e.need_indent
    THEN [e EXCEPT !.current = Append(@, Spaces(e.indent * 2)),
                   !.need_indent = FALSE]
    ELSE e

emit_indent_if_needed(e) ==
    IF e.need_indent
    THEN [e EXCEPT !.current = Append(@, Spaces(e.indent * 4)),
                   !.need_indent = FALSE]
    ELSE e

emit_text(e, text) ==
    LET e1 == emit_indent_if_needed(e)
    IN  [e1 EXCEPT !.current = Append(@, text)]

\* str.endswith(" ")
endswith_space(s) == s # <<>> /\ s[Len(s)] = " "

\* variant: no space is ever written
emit_space_never(e) == emit_indent_if_needed(e)

emit_space(e) ==
    LET e1 == emit_indent_if_needed(e)
    IN  IF e1.current = <<>> \/ ~endswith_space(e1.current[Len(e1.current)])
        THEN [e1 EXCEPT !.current = Append(@, <<" ">>)]
        ELSE e1

\* variant: the line is stored without right-trimming
newline_no_rstrip(e) ==
    [e EXCEPT !.lines = Append(@, Join(e.current)),
              !.current = <<>>,
              !.need_indent = TRUE]

newline(e) ==
    [e EXCEPT !.lines = Append(@, rstrip(Join(e.current))),
              !.current = <<>>,
              !.need_indent = TRUE]

open_block(e) == [e EXCEPT !.indent = @ + 1]

\* variant: the test is "indent < 0"
close_block_raises_negative(e) == e.indent < 0

\* the condition under which close_block raises ParseError
close_block_raises(e) == e.indent = 0

\* variant: the line under construction is not finalized
close_block_no_flush(e) == [e EXCEPT !.indent = @ - 1]

\* close_block when it does not raise
close_block(e) ==
    LET e1 == [e EXCEPT !.indent = @ - 1]
    IN  IF e1.current # <<>> /\ strip(Join(e1.current)) # <<>>
        THEN newline(e1)
        ELSE e1

RECURSIVE pop_blank(_)
\* while self.lines and self.lines[-1] == "": self.lines.pop()
pop_blank(ls) ==
    IF ls # <<>> /\ ls[Len(ls)] = <<>>
    THEN pop_blank(SubSeq(ls, 1, Len(ls) - 1))
    ELSE ls

\* the emitter as get_output leaves it
get_output_state(e) ==
    LET e1 == IF e.current # <<>> THEN newline(e) ELSE e
    IN  [e1 EXCEPT !.lines = pop_blank(@)]

\* the text get_output returns
get_output(e) == JoinLines(get_output_state(e).lines) \o <<"\n">>

----------------------------------------------------------------------------
(* translate *)

\* the token under the cursor: tok() of translate
tok == tokens[ti + 1]

\* emit_mapped_ident: the emitter and pending_header it leaves
emit_mapped_ident(e, pending, value) ==
    IF value \in DOMAIN KEYWORDS_MAP
    THEN LET mapped == KEYWORDS_MAP[value]
             e1 == emit_text(e, mapped)
             e2 == IF mapped \in NEED_SPACE_AFTER THEN emit_space(e1) ELSE e1
         IN  [out |-> e2,
              pending_header |-> IF mapped \in HEADER_TOKENS THEN TRUE ELSE pending]
    ELSE [out |-> emit_text(e, value), pending_header |-> pending]

\* variant: DOT is missing from the kinds that have a branch
RuleKinds_without_dot ==
    {"NEWLINE", "SEMI", "LBRACE", "RBRACE", "STRING", "NUMBER",
     "IDENT", "OP", "LPAREN", "RPAREN", "LBRACK", "RBRACK", "COMMA"}

\* token kinds for which the loop of translate has a branch
RuleKinds == {"NEWLINE", "SEMI", "LBRACE", "RBRACE", "STRING", "NUMBER",
              "IDENT", "OP", "LPAREN", "RPAREN", "LBRACK", "RBRACK",
              "COMMA", "DOT"}

InLoop == pc = "translate" /\ ti < Len(tokens)

\* variant: the token is not consumed
TNewline_no_advance ==
    /\ InLoop
    /\ tok.kind \in {"NEWLINE", "SEMI"}
    /\ out' = newline(out)
    /\ just_closed_brace' = FALSE
    /\ UNCHANGED <<lexVars, tokens, pending_header, ti, pc, result, err, hdr_at>>

\* NEWLINE or SEMI: finalize the line
TNewline ==
    /\ InLoop
    /\ tok.kind \in {"NEWLINE", "SEMI"}
    /\ out' = newline(out)
    /\ just_closed_brace' = FALSE
    /\ ti' = ti + 1
    /\ UNCHANGED <<lexVars, tokens, pending_header, pc, result, err, hdr_at>>

\* variant: the block is opened only for a pending header
TLBrace_header_only ==
    /\ InLoop
    /\ tok.kind = "LBRACE"
    /\ out' = IF pending_header
              THEN open_block(newline(emit_text(out, <<":">>)))
              ELSE newline(out)
    /\ pending_header' = FALSE
    /\ ti' = ti + 1
    /\ UNCHANGED <<lexVars, tokens, just_closed_brace, pc, result, err, hdr_at>>

\* LBRACE: colon for a pending header, finalize the line, indent
TLBrace ==
    /\ InLoop
    /\ tok.kind = "LBRACE"
    /\ out' = open_block(newline(IF pending_header
                                 THEN emit_text(out, <<":">>) ELSE out))
    /\ pending_header' = FALSE
    /\ ti' = ti + 1
    /\ UNCHANGED <<lexVars, tokens, just_closed_brace, pc, result, err, hdr_at>>

\* RBRACE: dedent, or ParseError when no block is open
TRBrace ==
    /\ InLoop
    /\ tok.kind = "RBRACE"
    /\ IF close_block_raises(out)
       THEN /\ pc' = "ParseError"
            /\ err' = Error("unmatched_close", 0, 0)
            /\ UNCHANGED <<out, just_closed_brace, ti>>
       ELSE /\ out' = close_block(out)
            /\ just_closed_brace' = TRUE
            /\ ti' = ti + 1
            /\ UNCHANGED <<pc, err>>
    /\ UNCHANGED <<lexVars, tokens, pending_header, result, hdr_at>>

\* STRING or NUMBER: the value verbatim
TLiteral ==
    /\ InLoop
    /\ tok.kind \in {"STRING", "NUMBER"}
    /\ out' = emit_text(out, tok.value)
    /\ just_closed_brace' = FALSE
    /\ ti' = ti + 1
    /\ UNCHANGED <<lexVars, tokens, pending_header, pc, result, err, hdr_at>>

\* IDENT: keyword mapping; SENAO_OPERADOR right after a closed block
TIdent ==
    /\ InLoop
    /\ tok.kind = "IDENT"
    /\ LET r == emit_mapped_ident(out, pending_header, tok.value)
       IN  /\ out' = r.out
           /\ pending_header' =
                 IF tok.value = SENAO_OPERADOR /\ just_closed_brace
                 THEN TRUE
                 ELSE r.pending_header
    /\ just_closed_brace' = FALSE
    /\ ti' = ti + 1
    /\ hdr_at' = IF /\ tok.value \in DOMAIN KEYWORDS_MAP
                    /\ KEYWORDS_MAP[tok.value] \in HEADER_TOKENS
                 THEN Append(hdr_at, [tok |-> ti + 1, line |-> Len(out.lines) + 1])
                 ELSE hdr_at
    /\ UNCHANGED <<lexVars, tokens, pc, result, err>>

\* OP: the value verbatim
TOp ==
    /\ InLoop
    /\ tok.kind = "OP"
    /\ out' = emit_text(out, tok.value)
    /\ just_closed_brace' = FALSE
    /\ ti' = ti + 1
    /\ UNCHANGED <<lexVars, tokens, pending_header, pc, result, err, hdr_at>>

\* variant: parens, brackets, comma and dot are consumed and not written
TPunct_dropped ==
    /\ InLoop
    /\ tok.kind \in {"LPAREN", "RPAREN", "LBRACK", "RBRACK", "COMMA", "DOT"}
    /\ just_closed_brace' = FALSE
    /\ ti' = ti + 1
    /\ UNCHANGED <<lexVars, tokens, out, pending_header, pc, result, err, hdr_at>>

\* parens, brackets, comma, dot: the value verbatim
TPunct ==
    /\ InLoop
    /\ tok.kind \in {"LPAREN", "RPAREN", "LBRACK", "RBRACK", "COMMA", "DOT"}
    /\ out' = emit_text(out, tok.value)
    /\ just_closed_brace' = FALSE
    /\ ti' = ti + 1
    /\ UNCHANGED <<lexVars, tokens, pending_header, pc, result, err, hdr_at>>

\* a token kind with no branch: ParseError
TUnexpected ==
    /\ InLoop
    /\ tok.kind \notin RuleKinds
    /\ pc' = "ParseError"
    /\ err' = Error("unexpected_token", tok.line, tok.col)
    /\ UNCHANGED <<lexVars, tokens, trVars>>

\* variant: the text is returned without the check for unclosed blocks
TFinish_unchecked ==
    /\ pc = "translate"
    /\ ti >= Len(tokens)
    /\ out' = get_output_state(out)
    /\ pc' = "done"
    /\ result' = get_output(out)
    /\ UNCHANGED <<lexVars, tokens, pending_header, just_closed_brace, ti,
                   hdr_at, err>>

\* after the loop: get_output, then the check for unclosed blocks
TFinish ==
    /\ pc = "translate"
    /\ ti >= Len(tokens)
    /\ out' = get_output_state(out)
    /\ IF out.indent # 0
       THEN /\ pc' = "ParseError"
            /\ err' = Error("unclosed_block", 0, 0)
            /\ result' = None
       ELSE /\ pc' = "done"
            /\ result' = get_output(out)
            /\ err' = err
    /\ UNCHANGED <<lexVars, tokens, pending_header, just_closed_brace, ti, hdr_at>>

----------------------------------------------------------------------------
(* lex *)

\* peek(k): the character k places ahead, "" past the end
peek(k) == IF i + k < Len(source) THEN source[i + k + 1] ELSE ""

is_ident_start(ch) == isalpha(ch) \/ ch = "_"
is_ident_part(ch) == isalnum(ch) \/ ch = "_"

\* the characters of the single-symbol rule
SimpleSymbols == {"{", "}", "(", ")", "[", "]", ";", ".", ",", ":", "+", "-",
                 "*", "/", "%", "<", ">", "=", "!", "&", "|", "^", "~"}

\* kind of a single symbol: the dictionary of the rule, OP by default
symbol_kind(ch) ==
    CASE ch = "{" -> "LBRACE"
      [] ch = "}" -> "RBRACE"
      [] ch = "(" -> "LPAREN"
      [] ch = ")" -> "RPAREN"
      [] ch = "[" -> "LBRACK"
      [] ch = "]" -> "RBRACK"
      [] ch = ";" -> "SEMI"
      [] ch = "," -> "COMMA"
      [] ch = "." -> "DOT"
      [] OTHER -> "OP"

\* ch + peek(1)
two == IF peek(1) = "" THEN <<peek(0)>> ELSE <<peek(0), peek(1)>>

\* no rule before the operator rules takes the character
reaches_operators(ch) ==
    /\ ch \notin {"\n", " ", "\t", "\r", "#", "\""}
    /\ ~(ch = "/" /\ peek(1) = "*")
    /\ ~is_ident_start(ch)
    /\ ~isdigit(ch)

RECURSIVE skip_line(_, _)
\* while i < n and peek() != "\n": advance()
skip_line(src, j) ==
    IF j < Len(src) /\ src[j + 1] # "\n" THEN skip_line(src, j + 1) ELSE j

RECURSIVE scan_comment(_, _, _, _)
\* the loop of the block comment rule, entered after the opening "/*"
scan_comment(src, j, l, c) ==
    IF j >= Len(src) THEN [ok |-> FALSE, i |-> j, line |-> l, col |-> c]
    ELSE IF src[j + 1] = "\n" THEN scan_comment(src, j + 1, l + 1, 1)
    ELSE IF src[j + 1] = "*" /\ j + 1 < Len(src) /\ src[j + 2] = "/"
         THEN [ok |-> TRUE, i |-> j + 2, line |-> l, col |-> c + 2]
    ELSE scan_comment(src, j + 1, l, c + 1)

RECURSIVE scan_string_one_line(_, _, _, _, _, _)
\* variant: a newline inside the string does not start a new line
scan_string_one_line(src, j, l, c, buf, escaped) ==
    IF j >= Len(src)
    THEN [ok |-> FALSE, i |-> j, line |-> l, col |-> c, buf |-> buf]
    ELSE LET ch == src[j + 1]
             buf1 == Append(buf, ch)
         IN  IF escaped THEN scan_string_one_line(src, j + 1, l, c + 1, buf1, FALSE)
             ELSE IF ch = "\\"
                  THEN scan_string_one_line(src, j + 1, l, c + 1, buf1, TRUE)
             ELSE IF ch = "\""
                  THEN [ok |-> TRUE, i |-> j + 1, line |-> l, col |-> c + 1,
                        buf |-> buf1]
             ELSE scan_string_one_line(src, j + 1, l, c + 1, buf1, FALSE)

RECURSIVE scan_string_no_escape(_, _, _, _, _, _)
\* variant: a backslash does not escape the character after it
scan_string_no_escape(src, j, l, c, buf, escaped) ==
    IF j >= Len(src)
    THEN [ok |-> FALSE, i |-> j, line |-> l, col |-> c, buf |-> buf]
    ELSE LET ch == src[j + 1]
             l1 == IF ch = "\n" THEN l + 1 ELSE l
             c1 == IF ch = "\n" THEN 1 ELSE c + 1
             buf1 == Append(buf, ch)
         IN  IF ch = "\""
             THEN [ok |-> TRUE, i |-> j + 1, line |-> l1, col |-> c1, buf |-> buf1]
             ELSE scan_string_no_escape(src, j + 1, l1, c1, buf1, FALSE)

RECURSIVE scan_string(_, _, _, _, _, _)
\* the loop of the string rule, entered after the opening quote
scan_string(src, j, l, c, buf, escaped) ==
    IF j >= Len(src)
    THEN [ok |-> FALSE, i |-> j, line |-> l, col |-> c, buf |-> buf]
    ELSE LET ch == src[j + 1]
             l1 == IF ch = "\n" THEN l + 1 ELSE l
             c1 == IF ch = "\n" THEN 1 ELSE c + 1
             buf1 == Append(buf, ch)
         IN  IF escaped THEN scan_string(src, j + 1, l1, c1, buf1, FALSE)
             ELSE IF ch = "\\" THEN scan_string(src, j + 1, l1, c1, buf1, TRUE)
             ELSE IF ch = "\""
                  THEN [ok |-> TRUE, i |-> j + 1, line |-> l1, col |-> c1,
                        buf |-> buf1]
             ELSE scan_string(src, j + 1, l1, c1, buf1, FALSE)

RECURSIVE scan_ident(_, _)
\* while i < n and (peek().isalnum() or peek() == "_"): advance()
scan_ident(src, j) ==
    IF j < Len(src) /\ is_ident_part(src[j + 1]) THEN scan_ident(src, j + 1) ELSE j

RECURSIVE scan_number_any_dots(_, _, _)
\* variant: every "." is taken, not only the first
scan_number_any_dots(src, j, is_float) ==
    IF j < Len(src) /\ (isdigit(src[j + 1]) \/ src[j + 1] = ".")
    THEN scan_number_any_dots(src, j + 1, is_float)
    ELSE j

RECURSIVE scan_number(_, _, _)
\* the loop of the number rule: digits and the first "."
scan_number(src, j, is_float) ==
    IF j < Len(src) /\ (isdigit(src[j + 1]) \/ (src[j + 1] = "." /\ ~is_float))
    THEN scan_number(src, j + 1, is_float \/ src[j + 1] = ".")
    ELSE j

\* source[a:b]
Slice(src, a, b) == SubSeq(src, a + 1, b)

AtChar == pc = "lex" /\ i < Len(source)

\* "\n": NEWLINE token, next line
LexNewline ==
    /\ AtChar
    /\ peek(0) = "\n"
    /\ tokens' = Append(tokens, Token("NEWLINE", <<"\n">>, line, col))
    /\ i' = i + 1
    /\ line' = line + 1
    /\ col' = 1
    /\ UNCHANGED <<source, trVars, pc, err>>

\* space, tab, carriage return: skipped
LexSpace ==
    /\ AtChar
    /\ peek(0) \in {" ", "\t", "\r"}
    /\ i' = i + 1
    /\ col' = col + 1
    /\ UNCHANGED <<source, line, tokens, trVars, pc, err>>

\* "#": skipped up to the end of the line
LexLineComment ==
    /\ AtChar
    /\ peek(0) = "#"
    /\ i' = skip_line(source, i)
    /\ col' = col + (i' - i)
    /\ UNCHANGED <<source, line, tokens, trVars, pc, err>>

\* "/*": skipped up to "*/", LexerError when it is never closed
LexBlockComment ==
    /\ AtChar
    /\ peek(0) = "/" /\ peek(1) = "*"
    /\ LET r == scan_comment(source, i + 2, line, col + 2)
       IN  IF r.ok
           THEN /\ i' = r.i
                /\ line' = r.line
                /\ col' = r.col
                /\ UNCHANGED <<pc, err>>
           ELSE /\ pc' = "LexerError"
                /\ err' = Error("unclosed_comment", line, col)
                /\ UNCHANGED <<i, line, col>>
    /\ UNCHANGED <<source, tokens, trVars>>

\* a double quote: STRING token, LexerError when it is never closed
LexString ==
    /\ AtChar
    /\ peek(0) = "\""
    /\ LET r == scan_string(source, i + 1, line, col + 1, <<"\"">>, FALSE)
       IN  IF r.ok
           THEN /\ tokens' = Append(tokens, Token("STRING", r.buf, line, col))
                /\ i' = r.i
                /\ line' = r.line
                /\ col' = r.col
                /\ UNCHANGED <<pc, err>>
           ELSE /\ pc' = "LexerError"
                /\ err' = Error("unclosed_string", line, col)
                /\ UNCHANGED <<tokens, i, line, col>>
    /\ UNCHANGED <<source, trVars>>

\* a letter or "_": IDENT token, LexerError for an unknown upper-case word
LexIdent ==
    /\ AtChar
    /\ is_ident_start(peek(0))
    /\ LET j == scan_ident(source, i + 1)
           ident == Slice(source, i, j)
       IN  IF isupper(ident) /\ ident \notin DOMAIN KEYWORDS_MAP
           THEN /\ pc' = "LexerError"
                /\ err' = Error("unknown_keyword", line, col)
                /\ UNCHANGED <<tokens, i, col>>
           ELSE /\ tokens' = Append(tokens, Token("IDENT", ident, line, col))
                /\ i' = j
                /\ col' = col + (j - i)
                /\ UNCHANGED <<pc, err>>
    /\ UNCHANGED <<source, line, trVars>>

\* a digit: NUMBER token
LexNumber ==
    /\ AtChar
    /\ isdigit(peek(0))
    /\ LET j == scan_number(source, i + 1, FALSE)
       IN  /\ tokens' = Append(tokens, Token("NUMBER", Slice(source, i, j), line, col))
           /\ i' = j
           /\ col' = col + (j - i)
    /\ UNCHANGED <<source, line, trVars, pc, err>>

\* ch + peek(1) in MULTI_CHAR_OPS: OP token, then advance() twice; the
\* second advance() reads source[i] past the end when ch was the last
\* character (a lone "<" or ">"), which raises IndexError
LexTwoCharOp ==
    /\ AtChar
    /\ reaches_operators(peek(0))
    /\ two \in MULTI_CHAR_OPS
    /\ IF i + 1 < Len(source)
       THEN /\ tokens' = Append(tokens, Token("OP", two, line, col))
            /\ i' = i + 2
            /\ col' = col + 2
            /\ UNCHANGED <<pc, err>>
       ELSE /\ pc' = "IndexError"
            /\ err' = Error("index_error", 0, 0)
            /\ UNCHANGED <<tokens, i, col>>
    /\ UNCHANGED <<source, line, trVars>>

\* a single symbol: its own kind, OP by default
LexSymbol ==
    /\ AtChar
    /\ reaches_operators(peek(0))
    /\ two \notin MULTI_CHAR_OPS
    /\ peek(0) \in SimpleSymbols
    /\ tokens' = Append(tokens, Token(symbol_kind(peek(0)), <<peek(0)>>, line, col))
    /\ i' = i + 1
    /\ col' = col + 1
    /\ UNCHANGED <<source, line, trVars, pc, err>>

\* no rule matches: LexerError
LexInvalid ==
    /\ AtChar
    /\ reaches_operators(peek(0))
    /\ two \notin MULTI_CHAR_OPS
    /\ peek(0) \notin SimpleSymbols
    /\ pc' = "LexerError"
    /\ err' = Error("invalid_char", line, col)
    /\ UNCHANGED <<lexVars, tokens, trVars>>

\* variant: no NEWLINE token is appended at the end of the text
LexReturn_no_final_newline ==
    /\ pc = "lex"
    /\ i >= Len(source)
    /\ pc' = "translate"
    /\ UNCHANGED <<lexVars, tokens, trVars, err>>

\* end of the text: the final NEWLINE token; main hands the tokens to translate
LexReturn ==
    /\ pc = "lex"
    /\ i >= Len(source)
    /\ tokens' = Append(tokens, Token("NEWLINE", <<"\n">>, line, col))
    /\ pc' = "translate"
    /\ UNCHANGED <<lexVars, trVars, err>>

----------------------------------------------------------------------------
(* Inputs *)

RECURSIVE SeqsUpTo(_, _)
\* the sequences over S of length at most k
SeqsUpTo(S, k) ==
    IF k = 0 THEN {<<>>}
    ELSE LET shorter == SeqsUpTo(S, k - 1)
         IN  shorter \cup {Append(q, x) : q \in shorter, x \in S}

\* pieces of source text
SourceFragments ==
    {<<"A">>, <<"a">>, <<"_">>, <<"1">>, <<".">>, <<"\"">>, <<"\\">>,
     <<"\n">>, <<" ">>, <<"=">>, <<">">>, <<"/","*">>, <<"*","/">>, SE_RISCO}

\* text put before the fragments: nothing, a string over two lines, a block
\* comment over two lines, a line comment
Preambles ==
    {<<>>, <<"\"","a","\n","\"">>, <<"/","*","\n","*","/">>, <<"#","a","\n">>}

Soma == <<"O","P","E","R","A","C","A","O"," ","s","o","m","a","(","a",","," ","b",")"," ","{"," ","R","E","T","O","R","N","A","R","_","S","T","A","T","U","S"," ","a"," ","I","N","T","E","N","S","I","F","I","C","A","R"," ","b"," ","}">>

ScenarioSources ==
    {Soma,
     <<"1",".","1",".","1">>,
     <<"a","/","b">>,
     <<"\"","a","\\","\"","b","\"">>,
     <<"S","E","_","R","I","S","C","O"," ","a"," ","{"," ","b"," ","}"," ","S","E","N","A","O","_","O","P","E","R","A","D","O","R"," ","{"," ","c"," ","}">>,
     <<"\"","a"," ","\n","\"">>,
     <<"{"," ","\"","a","\n","\""," ","}">>,
     <<"\"","\\","\\","\"","a">>}

Sources ==
    {p \o Join(f) : p \in Preambles, f \in SeqsUpTo(SourceFragments, MaxFrags)}
        \cup ScenarioSources

Tk(kind, value) == Token(kind, value, 1, 1)

CoreAlphabet ==
    {Tk("NEWLINE", <<"\n">>), Tk("LBRACE", <<"{">>), Tk("RBRACE", <<"}">>),
     Tk("IDENT", SE_RISCO), Tk("IDENT", SENAO_OPERADOR), Tk("IDENT", <<"a">>)}

FullAlphabet ==
    CoreAlphabet \cup
    {Tk("SEMI", <<";">>), Tk("STRING", <<"\"","s","\"">>), Tk("NUMBER", <<"1">>),
     Tk("IDENT", RETORNAR_STATUS), Tk("IDENT", INTENSIFICAR),
     Tk("OP", <<"=">>), Tk("LPAREN", <<"(">>), Tk("COMMA", <<",">>),
     Tk("COLON", <<":">>)}

\* every keyword of the table, alone, before "{" and before an identifier
KeywordInputs ==
    {<<Tk("IDENT", k)>> \o s :
        k \in DOMAIN KEYWORDS_MAP,
        s \in {<<>>, <<Tk("LBRACE", <<"{">>)>>, <<Tk("IDENT", <<"a">>)>>}}

TokenInputs ==
    SeqsUpTo(CoreAlphabet, MaxTokens) \cup SeqsUpTo(FullAlphabet, MaxShort)
        \cup KeywordInputs

----------------------------------------------------------------------------
(* Specification *)

\* main: lex(src) then translate(tokens); or translate called on a token list
Init ==
    /\ i = 0
    /\ line = 1
    /\ col = 1
    /\ out = Emitter
    /\ pending_header = FALSE
    /\ just_closed_brace = FALSE
    /\ ti = 0
    /\ result = None
    /\ err = NoError
    /\ hdr_at = <<>>
    /\ \/ /\ pc = "lex"
          /\ source \in Sources
          /\ tokens = <<>>
       \/ /\ pc = "translate"
          /\ source = <<>>
          /\ tokens \in TokenInputs

Next ==
    \/ LexNewline
    \/ LexSpace
    \/ LexLineComment
    \/ LexBlockComment
    \/ LexString
    \/ LexIdent
    \/ LexNumber
    \/ LexTwoCharOp
    \/ LexSymbol
    \/ LexInvalid
    \/ LexReturn
    \/ TNewline
    \/ TLBrace
    \/ TRBrace
    \/ TLiteral
    \/ TIdent
    \/ TOp
    \/ TPunct
    \/ TUnexpected
    \/ TFinish

Spec == Init /\ [][Next]_vars

\* lex and translate run on without pause until they return or raise
FairSpec == Spec /\ WF_vars(Next)

TypeOK ==
    /\ pc \in {"lex", "translate", "done", "LexerError", "ParseError", "IndexError"}
    /\ i \in 0..Len(source)
    /\ ti \in 0..Len(tokens)
    /\ out.indent \in Int
    /\ pending_header \in BOOLEAN
    /\ just_closed_brace \in BOOLEAN

----------------------------------------------------------------------------
(* Vocabulary of the properties *)

RECURSIVE Count(_, _, _)
\* how many of the first k tokens of toks have the kind
Count(toks, kind, k) ==
    IF k = 0 THEN 0
    ELSE Count(toks, kind, k - 1) + (IF toks[k].kind = kind THEN 1 ELSE 0)

\* "{" minus "}" among the first k tokens
Depth(toks, k) == Count(toks, "LBRACE", k) - Count(toks, "RBRACE", k)

\* no "}" of toks is unmatched
NoUnmatchedClose(toks) == \A k \in 1..Len(toks) : Depth(toks, k) >= 0

AllRuleKinds(toks) == \A k \in 1..Len(toks) : toks[k].kind \in RuleKinds

\* the "{" that the "}" at position k closes
MatchingOpen(toks, k) ==
    CHOOSE m \in 1..(k - 1) :
        /\ toks[m].kind = "LBRACE"
        /\ Depth(toks, m - 1) = Depth(toks, k)
        /\ \A j \in (m + 1)..(k - 1) : Depth(toks, j) > Depth(toks, k)

HeaderKeywords == {OPERACAO, SE_RISCO, SENAO_OPERADOR, ENQUANTO_ESCANEANDO}

IsHeaderKeyword(t) == t.kind = "IDENT" /\ t.value \in HeaderKeywords

IsElse(t) == t.kind = "IDENT" /\ t.value = SENAO_OPERADOR

TranslateEnded == pc \in {"done", "ParseError"}

EndsInColon(ln) == ln # <<>> /\ ln[Len(ln)] = ":"

\* 1-based line of the character at 0-based position p
RefLine(src, p) == 1 + Cardinality({k \in 1..p : src[k] = "\n"})

\* 1-based column of the character at 0-based position p
RefCol(src, p) ==
    LET nls == {k \in 1..p : src[k] = "\n"}
        last == IF nls = {} THEN 0 ELSE CHOOSE k \in nls : \A m \in nls : m <= k
    IN  p - last + 1

\* 0-based end of the identifier that starts at 0-based position p
IdentEnd(src, p) ==
    CHOOSE j \in (p + 1)..Len(src) :
        /\ \A k \in (p + 1)..j : is_ident_part(src[k])
        /\ j = Len(src) \/ ~is_ident_part(src[j + 1])

----------------------------------------------------------------------------
(* Properties *)

\* C1: a "}" processed at indentation depth 0 raises ParseError (unmatched
\* close) and no output text is returned; the depth is never negative.
C1_UnmatchedCloseFails ==
    /\ [][(InLoop /\ tok.kind = "RBRACE" /\ out.indent = 0)
             => (pc' = "ParseError" /\ err'.kind = "unmatched_close"
                 /\ result' = None)]_vars
    /\ [](out.indent >= 0)
    /\ [](pc = "ParseError" => result = None)

C1_Witness ==
    /\ pc = "ParseError"
    /\ err.kind = "unmatched_close"
    /\ ti >= 2
    /\ tokens[ti + 1].kind = "RBRACE"
    /\ out.indent = 0

\* C2: when no "}" is unmatched and there are more "{" than "}", translate
\* ends in ParseError with no output text; when every token has a rule the
\* error is the unclosed-block one, raised after the last token.
C2_UnclosedBlockFails ==
    (/\ TranslateEnded
     /\ NoUnmatchedClose(tokens)
     /\ Depth(tokens, Len(tokens)) > 0)
        => /\ pc = "ParseError"
           /\ result = None
           /\ AllRuleKinds(tokens)
                 => (ti = Len(tokens) /\ err.kind = "unclosed_block")

C2_Witness ==
    /\ pc = "ParseError"
    /\ err.kind = "unclosed_block"
    /\ ti = Len(tokens)
    /\ Depth(tokens, Len(tokens)) = 2

\* C3: a header keyword with no "{" after it makes translate fail, and a run
\* is accepted only with indentation depth zero and pending_header false.
C3_HeaderWithoutBlockFails ==
    /\ (/\ TranslateEnded
        /\ \E k \in 1..Len(tokens) :
              /\ IsHeaderKeyword(tokens[k])
              /\ \A j \in (k + 1)..Len(tokens) : tokens[j].kind # "LBRACE")
          => pc = "ParseError"
    /\ pc = "done" => (out.indent = 0 /\ ~pending_header)

\* C4: in a successful run, the output line on which a header keyword was
\* written ends with ":" whenever a "{" comes later in the tokens.
C4_HeaderLineEndsInColon ==
    pc = "done" =>
        \A h \in 1..Len(hdr_at) :
            (\E j \in (hdr_at[h].tok + 1)..Len(tokens) : tokens[j].kind = "LBRACE")
                => /\ hdr_at[h].line <= Len(out.lines)
                   /\ EndsInColon(out.lines[hdr_at[h].line])

\* C5: SENAO_OPERADOR directly after "}" starts a fresh line with "else" at
\* the depth at which the closed block was opened and sets pending_header;
\* a "{" directly after it finalizes that line as "else:".
C5_ElseAfterClose ==
    /\ [][(InLoop /\ IsElse(tok) /\ ti >= 1 /\ tokens[ti].kind = "RBRACE")
             => LET d == Depth(tokens, MatchingOpen(tokens, ti) - 1)
                IN  /\ out'.current = <<Spaces(4 * d), py_else>>
                    /\ out'.lines = out.lines
                    /\ out'.indent = d
                    /\ pending_header'
                    /\ ~just_closed_brace']_vars
    /\ [][(/\ InLoop /\ tok.kind = "LBRACE" /\ ti >= 2
           /\ IsElse(tokens[ti]) /\ tokens[ti - 1].kind = "RBRACE")
             => LET d == Depth(tokens, MatchingOpen(tokens, ti - 1) - 1)
                IN  /\ out'.lines = Append(out.lines, Spaces(4 * d) \o py_else \o <<":">>)
                    /\ out'.current = <<>>
                    /\ ~pending_header']_vars

C5_Witness ==
    /\ pc = "translate"
    /\ ti >= 5
    /\ tokens[ti].kind = "LBRACE"
    /\ IsElse(tokens[ti - 1])
    /\ tokens[ti - 2].kind = "RBRACE"
    /\ out.lines[Len(out.lines)] = <<" "," "," "," ","e","l","s","e",":">>
    /\ out.indent = 2

\* C6 as stated: SENAO_OPERADOR processed while just_closed_brace is false
\* does not set pending_header.
C6_PlainElseSetsNoHeader ==
    [][(InLoop /\ IsElse(tok) /\ ~just_closed_brace)
          => pending_header' = pending_header]_vars

\* C6 amended: SENAO_OPERADOR processed while just_closed_brace is false is
\* written as "else" with no space after it and sets pending_header like any
\* header keyword; a "{" directly after it ends the line with ":".
C6_PlainElseIsHeader ==
    /\ [][(InLoop /\ IsElse(tok) /\ ~just_closed_brace)
             => /\ Join(out'.current) =
                      (IF out.current = <<>> THEN Spaces(4 * out.indent)
                       ELSE Join(out.current)) \o py_else
                /\ out'.lines = out.lines
                /\ pending_header'
                /\ ~just_closed_brace']_vars
    /\ [][(/\ InLoop /\ tok.kind = "LBRACE" /\ ti >= 1 /\ IsElse(tokens[ti])
           /\ (ti = 1 \/ tokens[ti - 1].kind # "RBRACE"))
             => /\ EndsInColon(out'.lines[Len(out'.lines)])
                /\ ~pending_header']_vars

C6_Witness ==
    /\ pc = "translate"
    /\ ti >= 3
    /\ tokens[ti].kind = "LBRACE"
    /\ IsElse(tokens[ti - 1])
    /\ tokens[ti - 2].kind = "NEWLINE"
    /\ out.lines[Len(out.lines)] = <<"e","l","s","e",":">>

Soma_claimed == <<"d","e","f"," ","s","o","m","a","(","a",","," ","b",")",":","\n"," "," "," "," ","r","e","t","u","r","n"," ","a"," ","+"," ","b","\n">>

Soma_header == <<"d","e","f"," ","s","o","m","a","(","a",",","b",")",":">>

Soma_body == <<" "," "," "," ","r","e","t","u","r","n"," ","a","+","b">>

\* C7 as stated: the text of Soma translates to "def soma(a, b):" and,
\* indented by 4 spaces, "return a + b".
C7_SomaSpaced ==
    (source = Soma /\ pc = "done") => result = Soma_claimed

\* C7 amended: the text of Soma translates to exactly two lines,
\* "def soma(a,b):" and, indented by 4 spaces, "return a+b": no space is
\* written between tokens except after def, return, if and while.
C7_Soma ==
    (source = Soma /\ pc \in {"done", "LexerError", "ParseError", "IndexError"})
        => /\ pc = "done"
           /\ out.lines = <<Soma_header, Soma_body>>
           /\ result = Soma_header \o <<"\n">> \o Soma_body \o <<"\n">>

C7_Witness == source = Soma /\ pc = "done" /\ Len(out.lines) = 2

\* C8: while translate has raised no error, the indentation depth is the
\* number of "{" minus the number of "}" among the tokens processed; with
\* all braces matched the depth after the last token is zero.
C8_DepthIsBraceBalance ==
    /\ pc \in {"translate", "done"} => out.indent = Depth(tokens, ti)
    /\ (/\ pc \in {"translate", "done"}
        /\ ti = Len(tokens)
        /\ NoUnmatchedClose(tokens)
        /\ Depth(tokens, Len(tokens)) = 0) => out.indent = 0

C8_Witness ==
    /\ pc = "done"
    /\ Count(tokens, "LBRACE", Len(tokens)) = 2
    /\ \E k \in 1..Len(tokens) : tokens[k].kind = "LBRACE" /\ k > 1
                                    /\ ~IsHeaderKeyword(tokens[k - 1])
    /\ out.indent = 0

\* C9: after a token has been processed, pending_header and
\* just_closed_brace are not both true.
C9_FlagsExclusive ==
    pc \in {"translate", "done", "ParseError"}
        => ~(pending_header /\ just_closed_brace)

\* C10: an identifier that is all upper-case and not a key of KEYWORDS_MAP
\* raises LexerError with the 1-based line and column of its first
\* character; any other identifier becomes an IDENT token with its raw
\* spelling and that position.
C10_UpperCaseIdentifier ==
    [][(AtChar /\ is_ident_start(source[i + 1]))
          => LET j == IdentEnd(source, i)
                 ident == SubSeq(source, i + 1, j)
                 l == RefLine(source, i)
                 c == RefCol(source, i)
             IN  IF /\ \A k \in 1..Len(ident) : ident[k] \notin LowerChars
                    /\ \E k \in 1..Len(ident) : ident[k] \in UpperChars
                    /\ ident \notin DOMAIN KEYWORDS_MAP
                 THEN /\ pc' = "LexerError"
                      /\ err' = Error("unknown_keyword", l, c)
                      /\ tokens' = tokens
                 ELSE /\ pc' = "lex"
                      /\ tokens' = Append(tokens, Token("IDENT", ident, l, c))
                      /\ i' = j]_vars

C10_Witness ==
    /\ pc = "LexerError"
    /\ err = Error("unknown_keyword", 2, 3)
    /\ source[1] = "\""
    /\ Len(tokens) = 1

RECURSIVE OutsideNewlines(_, _, _)
\* the newline characters of src from 0-based position j on that lie outside
\* string literals and block comments; mode is "code", "line" (in a line
\* comment), "block" (in a block comment), "str" or "esc" (in a string,
\* after a backslash)
OutsideNewlines(src, j, mode) ==
    IF j >= Len(src) THEN 0
    ELSE LET ch == src[j + 1]
             nx == IF j + 1 < Len(src) THEN src[j + 2] ELSE ""
         IN  CASE mode = "code" ->
                    IF ch = "\n" THEN 1 + OutsideNewlines(src, j + 1, "code")
                    ELSE IF ch = "#" THEN OutsideNewlines(src, j + 1, "line")
                    ELSE IF ch = "\"" THEN OutsideNewlines(src, j + 1, "str")
                    ELSE IF ch = "/" /\ nx = "*"
                         THEN OutsideNewlines(src, j + 2, "block")
                    ELSE IF nx # "" /\ <<ch, nx>> \in MULTI_CHAR_OPS
                         THEN OutsideNewlines(src, j + 2, "code")
                    ELSE OutsideNewlines(src, j + 1, "code")
               [] mode = "line" ->
                    IF ch = "\n" THEN 1 + OutsideNewlines(src, j + 1, "code")
                    ELSE OutsideNewlines(src, j + 1, "line")
               [] mode = "block" ->
                    IF ch = "*" /\ nx = "/" THEN OutsideNewlines(src, j + 2, "code")
                    ELSE OutsideNewlines(src, j + 1, "block")
               [] mode = "str" ->
                    IF ch = "\\" THEN OutsideNewlines(src, j + 1, "esc")
                    ELSE IF ch = "\"" THEN OutsideNewlines(src, j + 1, "code")
                    ELSE OutsideNewlines(src, j + 1, "str")
               [] OTHER -> OutsideNewlines(src, j + 1, "str")

\* C11: when lex returns, the token list is not empty, its last token is the
\* NEWLINE appended after scanning, and the NEWLINE tokens are one more than
\* the newline characters outside string literals and block comments.
C11_FinalNewline ==
    [][(pc = "lex" /\ pc' = "translate")
          => /\ tokens' # <<>>
             /\ tokens' = Append(tokens, Token("NEWLINE", <<"\n">>, line, col))
             /\ i = Len(source)
             /\ Count(tokens', "NEWLINE", Len(tokens'))
                    = 1 + OutsideNewlines(source, 0, "code")]_vars

C11_Witness ==
    /\ pc = "translate"
    /\ ti = 0
    /\ source # <<>>
    /\ Len(tokens) = 3
    /\ tokens[1].kind = "STRING"
    /\ \E k \in 1..Len(tokens[1].value) : tokens[1].value[k] = "\n"
    /\ tokens[2].kind = "NEWLINE"
    /\ tokens[3].kind = "NEWLINE"

RECURSIVE Split(_, _)
\* the lines of text: text.split("\n"), cur being the line under way
Split(text, cur) ==
    IF text = <<>> THEN <<cur>>
    ELSE IF Head(text) = "\n" THEN <<cur>> \o Split(Tail(text), <<>>)
    ELSE Split(Tail(text), Append(cur, Head(text)))

\* the lines of an output text, without its final newline
TextLines(text) == Split(SubSeq(text, 1, Len(text) - 1), <<>>)

EndsWithOneNewline(text) ==
    /\ text # <<>>
    /\ text[Len(text)] = "\n"
    /\ Len(text) >= 2 => text[Len(text) - 1] # "\n"

LastLineNotBlank(text) ==
    Len(text) >= 2 =>
        strip(TextLines(text)[Len(TextLines(text))]) # <<>>

HasNewline(s) == \E k \in 1..Len(s) : s[k] = "\n"

\* C12 as stated: a returned text ends with exactly one newline, its last
\* line is not blank, and none of its lines ends with a space.
C12_NoTrailingSpace ==
    pc = "done" =>
        /\ EndsWithOneNewline(result)
        /\ LastLineNotBlank(result)
        /\ \A k \in 1..Len(TextLines(result)) :
              ~endswith_space(TextLines(result)[k])

\* C12 amended: a returned text ends with exactly one newline and its last
\* line is not blank; no line of the emitter ends with white space, and the
\* text is these lines joined, so a line of the text ends with a space only
\* where the newline that ends it lies inside a string literal.
C12_OutputShape ==
    pc = "done" =>
        /\ EndsWithOneNewline(result)
        /\ LastLineNotBlank(result)
        /\ \A k \in 1..Len(out.lines) :
              out.lines[k] = <<>>
                 \/ out.lines[k][Len(out.lines[k])] \notin Whitespace
        /\ result = JoinLines(out.lines) \o <<"\n">>
        /\ (\A k \in 1..Len(tokens) :
               tokens[k].kind = "STRING" => ~HasNewline(tokens[k].value))
             => /\ out.lines # <<>> => TextLines(result) = out.lines
                /\ \A k \in 1..Len(TextLines(result)) :
                      ~endswith_space(TextLines(result)[k])

C12_Witness ==
    /\ pc = "done"
    /\ source = <<"\"","a"," ","\n","\"">>
    /\ Len(out.lines) = 1
    /\ Len(TextLines(result)) = 2
    /\ endswith_space(TextLines(result)[1])

RECURSIVE WithoutWhitespace(_)
\* text with its white space characters removed
WithoutWhitespace(text) ==
    IF text = <<>> THEN <<>>
    ELSE IF Head(text) \in Whitespace THEN WithoutWhitespace(Tail(text))
    ELSE <<Head(text)>> \o WithoutWhitespace(Tail(text))

RECURSIVE ValuesOf(_, _)
\* the values, in order and joined, of the tokens of toks whose kind is
\* not in skip
ValuesOf(toks, skip) ==
    IF toks = <<>> THEN <<>>
    ELSE (IF Head(toks).kind \in skip THEN <<>> ELSE Head(toks).value)
             \o ValuesOf(Tail(toks), skip)

NoKeywords(toks) ==
    \A k \in 1..Len(toks) :
        toks[k].kind = "IDENT" => toks[k].value \notin DOMAIN KEYWORDS_MAP

\* s occurs in text as a run of consecutive characters
OccursIn(s, text) ==
    \E k \in 0..(Len(text) - Len(s)) : SubSeq(text, k + 1, k + Len(s)) = s

\* C13 as stated: without keywords, the text of every token (the NEWLINE
\* tokens apart) is in the output, in order, and the output differs from
\* the input only in white space.
C13_AllTokensCopied ==
    (pc = "done" /\ NoKeywords(tokens))
        => WithoutWhitespace(result)
              = WithoutWhitespace(ValuesOf(tokens, {"NEWLINE"}))

\* C13 amended: without keywords, the text of every token other than
\* NEWLINE, ";", "{" and "}" is in the output, in order, and nothing else
\* but white space is; strings and numbers are in it character for
\* character.
C13_TokensCopied ==
    (pc = "done" /\ NoKeywords(tokens))
        => /\ WithoutWhitespace(result)
                 = WithoutWhitespace(
                       ValuesOf(tokens, {"NEWLINE", "SEMI", "LBRACE", "RBRACE"}))
           /\ \A k \in 1..Len(tokens) :
                 tokens[k].kind \in {"STRING", "NUMBER"}
                    => OccursIn(tokens[k].value, result)

C13_Witness ==
    /\ pc = "done"
    /\ NoKeywords(tokens)
    /\ \E k \in 1..Len(tokens) : tokens[k].kind = "STRING"
    /\ \E k \in 1..Len(tokens) : tokens[k].kind = "DOT"
    /\ \E k \in 1..Len(tokens) : tokens[k].kind = "NUMBER"

RECURSIVE BackslashRun(_, _, _)
\* how many consecutive backslashes end at 1-based position k of src,
\* looking no further back than position lo
BackslashRun(src, lo, k) ==
    IF k < lo \/ src[k] # "\\" THEN 0 ELSE 1 + BackslashRun(src, lo, k - 1)

\* the 1-based positions of the unescaped quotes that can close the literal
\* opened by the quote at 1-based position q
ClosingQuotes(src, q) ==
    {k \in (q + 1)..Len(src) :
        /\ src[k] = "\""
        /\ BackslashRun(src, q + 1, k - 1) % 2 = 0}

\* the least member of a non-empty set of numbers
Least(S) == CHOOSE k \in S : \A m \in S : k <= m

\* C14: a literal opened by a quote is one STRING token holding the source
\* text up to the first unescaped closing quote, or a LexerError at the
\* opening quote when there is none; translate writes the value verbatim.
C14_StringLiteral ==
    /\ [][(AtChar /\ source[i + 1] = "\"")
             => LET closing == ClosingQuotes(source, i + 1)
                IN  IF closing = {}
                    THEN /\ pc' = "LexerError"
                         /\ err' = Error("unclosed_string",
                                         RefLine(source, i), RefCol(source, i))
                         /\ tokens' = tokens
                    ELSE /\ pc' = "lex"
                         /\ tokens' = Append(tokens,
                               Token("STRING",
                                     SubSeq(source, i + 1, Least(closing)),
                                     RefLine(source, i), RefCol(source, i)))
                         /\ i' = Least(closing)]_vars
    /\ [][(InLoop /\ tok.kind = "STRING")
             => /\ out'.current[Len(out'.current)] = tok.value
                /\ Join(out'.current) =
                      (IF out.current = <<>> THEN Spaces(4 * out.indent)
                       ELSE Join(out.current)) \o tok.value
                /\ out'.lines = out.lines]_vars
    /\ [](pc = "done" =>
             \A k \in 1..Len(tokens) :
                 tokens[k].kind = "STRING" => OccursIn(tokens[k].value, result))

C14_Witness ==
    /\ pc = "done"
    /\ source = <<"\"","a","\\","\"","b","\"">>
    /\ tokens[1] = Token("STRING", source, 1, 1)
    /\ result = source \o <<"\n">>

IsKeyword(t) == t.kind = "IDENT" /\ t.value \in DOMAIN KEYWORDS_MAP

\* the last piece of the line under construction is a single space
SpaceWritten(e) == e.current # <<>> /\ e.current[Len(e.current)] = <<" ">>

\* C15 as stated: no keyword is both a block header and followed by a space,
\* and RETORNAR_STATUS ("return") is not followed by a space.
C15_DisjointSets ==
    [][(InLoop /\ IsKeyword(tok))
          => /\ ~(SpaceWritten(out') /\ tok.value \in HeaderKeywords /\ pending_header')
             /\ tok.value = RETORNAR_STATUS => ~SpaceWritten(out')]_vars

\* C15 amended: a space is written exactly after def, if, while and return;
\* pending_header is set exactly by def, if, else and while; so def, if and
\* while are in both sets, else is a header only, return takes a space only
\* and print and the operators are in neither.
C15_OverlappingSets ==
    [][(InLoop /\ IsKeyword(tok))
          => /\ SpaceWritten(out')
                  <=> tok.value \in {OPERACAO, SE_RISCO, ENQUANTO_ESCANEANDO,
                                     RETORNAR_STATUS}
             /\ pending_header'
                  <=> (pending_header
                         \/ tok.value \in {OPERACAO, SE_RISCO, SENAO_OPERADOR,
                                           ENQUANTO_ESCANEANDO})]_vars

C15_Witness ==
    /\ pc = "translate"
    /\ ti = 1
    /\ tokens[1].value = ENQUANTO_ESCANEANDO
    /\ pending_header
    /\ SpaceWritten(out)

\* C16: just_closed_brace is true after a token is processed exactly when
\* the token was "}".
C16_JustClosedOnlyAfterClose ==
    [][(InLoop /\ pc' = "translate")
          => (just_closed_brace' <=> tok.kind = "RBRACE")]_vars

\* ln starts with exactly k spaces and a character that is not a space
StartsWithIndent(ln, k) ==
    /\ Len(ln) > k
    /\ \A j \in 1..k : ln[j] = " "
    /\ ln[k + 1] # " "

\* C17 as stated, for the lines of the output text: when a line is
\* finalized, each line of text it holds is empty or starts with exactly
\* 4 x d spaces, d being the depth at which it was written.
C17_TextLineIndentation ==
    [][(Len(out'.lines) = Len(out.lines) + 1)
          => LET ls == Split(out'.lines[Len(out'.lines)], <<>>)
             IN  \A k \in 1..Len(ls) :
                     ls[k] = <<>> \/ StartsWithIndent(ls[k], 4 * out.indent)]_vars

\* C17 amended, for the lines of the emitter: the first content of a line
\* is written after 4 x d spaces, d being the depth at that moment; the
\* depth does not change while the line is under construction, except that
\* "}" finalizes the line and then leaves it at the depth it was written
\* in; a line finalized with no content is the empty string.
C17_LineIndentation ==
    /\ [][(out.current = <<>> /\ out'.current # <<>>)
             => /\ out'.current[1] = Spaces(4 * out.indent)
                /\ out'.indent = out.indent]_vars
    /\ [](out.current # <<>>
             => /\ out.current[1] = Spaces(4 * out.indent)
                /\ Len(out.current) >= 2
                /\ out.current[2] # <<>>
                /\ out.current[2][1] # " ")
    /\ [][(Len(out'.lines) = Len(out.lines) + 1)
             => LET ln == out'.lines[Len(out'.lines)]
                IN  IF /\ out.current = <<>>
                       /\ ~(InLoop /\ tok.kind = "LBRACE" /\ pending_header)
                    THEN ln = <<>>
                    ELSE StartsWithIndent(ln, 4 * out.indent)]_vars
    /\ [](\A k \in 1..Len(out.lines) :
             \/ out.lines[k] = <<>>
             \/ \E d \in 0..Len(tokens) : StartsWithIndent(out.lines[k], 4 * d))

C17_Witness ==
    /\ pc = "translate"
    /\ ti = 3
    /\ tokens[3].kind = "RBRACE"
    /\ tokens[2].kind = "STRING"
    /\ HasNewline(tokens[2].value)
    /\ out.indent = 0
    /\ out.lines = <<<<>>, <<" "," "," "," ","\"","a","\n","\"">>>>

\* C18: a digit starts a NUMBER token made of digits and at most one ".",
\* which ends at the first character that is neither a digit nor the first
\* "."; a "." met outside a number is a DOT token.
C18_NumberToken ==
    /\ [][(AtChar /\ source[i + 1] \in DigitChars)
             => /\ pc' = "lex"
                /\ i' > i
                /\ tokens' = Append(tokens,
                      Token("NUMBER", SubSeq(source, i + 1, i'), line, col))
                /\ LET v == SubSeq(source, i + 1, i')
                       dots == {k \in 1..Len(v) : v[k] = "."}
                   IN  /\ \A k \in 1..Len(v) : v[k] \in DigitChars \cup {"."}
                       /\ Cardinality(dots) <= 1
                       /\ \/ i' = Len(source)
                          \/ /\ source[i' + 1] \notin DigitChars
                             /\ source[i' + 1] = "." => dots # {}]_vars
    /\ [][(AtChar /\ source[i + 1] = ".")
             => /\ pc' = "lex"
                /\ tokens' = Append(tokens, Token("DOT", <<".">>, line, col))
                /\ i' = i + 1]_vars

C18_Witness ==
    /\ pc = "translate"
    /\ ti = 0
    /\ source = <<"1",".","1",".","1">>
    /\ tokens = <<Token("NUMBER", <<"1",".","1">>, 1, 1),
                  Token("DOT", <<".">>, 1, 4),
                  Token("NUMBER", <<"1">>, 1, 5),
                  Token("NEWLINE", <<"\n">>, 1, 6)>>

\* the token kinds that lex produces
LexKinds == {"IDENT", "NUMBER", "STRING", "NEWLINE", "LBRACE", "RBRACE",
             "LPAREN", "RPAREN", "LBRACK", "RBRACK", "SEMI", "COMMA", "DOT", "OP"}

\* C19: translate raises the unexpected-token ParseError exactly on a token
\* whose kind is none of those lex produces; every token of lex has one of
\* these kinds, so after lex translate fails only for an unmatched close or
\* an unclosed block.
C19_UnexpectedToken ==
    /\ [][InLoop => ((pc' = "ParseError" /\ err'.kind = "unexpected_token")
                        <=> tok.kind \notin LexKinds)]_vars
    /\ [](pc = "lex" => \A k \in 1..Len(tokens) : tokens[k].kind \in LexKinds)
    /\ [][(pc = "lex" /\ pc' = "translate")
             => \A k \in 1..Len(tokens') : tokens'[k].kind \in LexKinds]_vars
    /\ [](pc = "ParseError"
             => /\ err.kind \in {"unmatched_close", "unclosed_block",
                                 "unexpected_token"}
                /\ err.kind = "unexpected_token"
                      => \E k \in 1..Len(tokens) : tokens[k].kind \notin LexKinds)

C19_Witness ==
    /\ pc = "ParseError"
    /\ err.kind = "unexpected_token"
    /\ ti = 1
    /\ tokens[2].kind = "COLON"

Finished == pc \in {"done", "LexerError", "ParseError", "IndexError"}

\* C20: a step of lex raises, returns at the end of the text or moves the
\* scan index forward; a step of translate raises, returns after the last
\* token or consumes exactly the next token; both come to an end.
C20_Termination ==
    /\ [][pc = "lex"
             => \/ pc' = "lex" /\ i' > i /\ i' <= Len(source) /\ source' = source
                \/ pc' \in {"LexerError", "IndexError"}
                \/ pc' = "translate" /\ i = Len(source)]_vars
    /\ [][pc = "translate"
             => \/ pc' = "translate" /\ ti' = ti + 1 /\ ti' <= Len(tokens)
                                     /\ tokens' = tokens
                \/ pc' = "ParseError"
                \/ pc' = "done" /\ ti = Len(tokens)]_vars
    /\ [][~Finished]_vars
    /\ <>Finished

C20_Witness ==
    /\ pc = "done"
    /\ source # <<>>
    /\ i = Len(source)
    /\ Len(tokens) >= 4
    /\ ti = Len(tokens)

====
